---- MODULE Spec2Model ----
(***************************************************************************)
(* 102shows: the APA102 protocol driver (server/drivers/apa102.py) and the *)
(* ColorCycle animation scheduler (server/lightshows/templates/            *)
(* colorcycle.py) with its parameter guards (server/lightshows/utilities/  *)
(* verifyparameters.py).                                                   *)
(*                                                                         *)
(* The specifications share the variables:                                 *)
(*   Spec        the scheduler: set_parameter, check_runnable, run() and   *)
(*               the driver's show() it calls, with an external stop       *)
(*   FairSpec    Spec, with run() and show() executing until they end      *)
(*   DriverSpec  the driver alone: initialize_strip_connection and show()  *)
(*   PrefixSpec  led_prefix applied to one brightness value                *)
(***************************************************************************)
EXTENDS Integers, Sequences, FiniteSets, TLC

VARIABLES
    \* ---- APA102 driver object
    num_leds,            \* self.num_leds
    max_clock_speed_hz,  \* self.max_clock_speed_hz
    spi,                 \* self.spi: None until the bus is opened
    color_buffer,        \* self.color_buffer: sequence of <<red, green, blue>>
    brightness_buffer,   \* self.brightness_buffer: sequence of 0..100
    showPc,              \* position inside show()
    spi_buffer,          \* show()'s local spi_buffer
    endLeft,             \* iterations left of clock_end_frame's loop
    wire,                \* bytes put on the bus since the current show() began
    xfers,               \* number of spi.xfer2 calls since construction
    showCalls,           \* number of show() invocations since construction
    shown,               \* the buffers the latest show() call was given, and
                         \* the buffers and the bytes of the call before it
    \* ---- ColorCycle object
    pause_sec,
    num_steps_per_cycle,
    num_cycles,
    stop_show,           \* self.__stop_show
    pc,                  \* position inside run()
    currentStep,
    current_cycle,
    need_repaint,
    \* ---- what the caller and the pattern hooks observe
    pattern,             \* which update() the concrete subclass implements
    trace,               \* the hook, strip and sleep calls run() has made, in order
    raised,              \* the exception the latest API call ended with, or None
    lastCall,            \* the API operation invoked most recently
    wasSet,              \* parameter names set successfully with set_parameter
    stopAt,              \* when stop was requested: the cycle then running,
                         \* the number of update() calls made so far, and
                         \* whether run() had been entered
    \* ---- led_prefix applied on its own
    arg,
    ret

driverVars == <<num_leds, max_clock_speed_hz, spi, color_buffer, brightness_buffer>>
showVars   == <<showPc, spi_buffer, endLeft, wire, xfers, showCalls, shown>>
paramVars  == <<pause_sec, num_steps_per_cycle, num_cycles>>
runVars    == <<pc, currentStep, current_cycle, need_repaint, pattern, trace>>
obsVars    == <<raised, lastCall, wasSet>>
stopVars   == <<stop_show, stopAt>>
pureVars   == <<arg, ret>>
vars == <<driverVars, showVars, paramVars, runVars, obsVars, stopVars, pureVars>>

None  == [type |-> "NoneType"]
PyInf == [type |-> "float_inf"]      \* float("inf")
Unset == 0 - 1                         \* a local or an observer not assigned yet
NotStopped == [cycle |-> Unset, updates |-> Unset, entered |-> FALSE]
NothingShown == [colors |-> <<>>, brightness |-> <<>>,
                 prevColors |-> <<>>, prevBrightness |-> <<>>, prevWire |-> <<>>]

(***************************************************************************)
(* Bounds of the model.                                                    *)
(***************************************************************************)
MaxLen == 2            \* strips of 1..MaxLen LEDs get every sample buffer
MaxParam == 3          \* integer parameter values offered run up to this
MaxCycle == 3          \* cycles an unbounded run is followed for
MaxShows == 2          \* show() calls a driver client makes
MaxBrightnessIn == 110 \* brightness values offered to led_prefix

(***************************************************************************)
(* Program constants.                                                      *)
(***************************************************************************)
LedLimit == 1024       \* "strips cannot have more than 1024 LEDs"
LedsPerPadByte == 16   \* clock_end_frame: one zero byte per 16 LEDs

(***************************************************************************)
(* Python values.  A number is [type, v]; a float's v counts halves, so    *)
(* that 0.5 is PyFloat(1) and 2.0 is PyFloat(4).                           *)
(***************************************************************************)
PyInt(n)   == [type |-> "int", v |-> n]
PyFloat(h) == [type |-> "float", v |-> h]
PyBool(b)  == [type |-> "bool", v |-> IF b THEN 1 ELSE 0]
PyStr      == [type |-> "str", v |-> 0]

Exc(t, m, p) == [type |-> t, msg |-> m, param |-> p]

(***************************************************************************)
(* Python 3 round(x) of the non-negative rational num/den: the nearest     *)
(* integer, a tie going to the even neighbour.                             *)
(***************************************************************************)
RoundTruncating(num, den) == num \div den

round(num, den) ==
    LET q == num \div den
        r == num % den
    IN  IF 2 * r < den THEN q
        ELSE IF 2 * r > den THEN q + 1
        ELSE IF q % 2 = 0 THEN q ELSE q + 1

RECURSIVE BitAnd(_, _)
BitAnd(a, b) ==
    IF a = 0 \/ b = 0 THEN 0
    ELSE ((a % 2) * (b % 2)) + 2 * BitAnd(a \div 2, b \div 2)

RECURSIVE BitOr(_, _)
BitOr(a, b) ==
    IF a = 0 THEN b
    ELSE IF b = 0 THEN a
    ELSE (IF a % 2 = 1 \/ b % 2 = 1 THEN 1 ELSE 0) + 2 * BitOr(a \div 2, b \div 2)

(***************************************************************************)
(* APA102.led_prefix: brightness / 100 * 31 is the rational 31*b/100; the  *)
(* float product is within 1e-13 of it and exact at the ties (b = 50 mod   *)
(* 100), so round() sees the same side of every half.                      *)
(***************************************************************************)
led_prefix_clamped(brightness) ==
    LET brightness_byte == round(brightness * 31, 100)
    IN  BitOr(IF brightness_byte > 31 THEN 31 ELSE brightness_byte, 224)

led_prefix(brightness) ==
    LET brightness_byte == round(brightness * 31, 100)
    IN  BitOr(BitAnd(brightness_byte, 31), 224)

(***************************************************************************)
(* APA102.assemble_spi_message: the loop over range(len(color_buffer)),    *)
(* appending prefix, blue, green, red for each LED.  LedRecord is one pass *)
(* of the loop body; AssembleRange runs the passes led_num = lo..hi-1 in   *)
(* order (the range is halved only to keep the evaluation depth            *)
(* logarithmic in the strip length).                                       *)
(***************************************************************************)
LedRecordRgb(led_num, cb, bb) ==
    LET prefix == led_prefix(bb[led_num + 1])
        red    == cb[led_num + 1][1]
        green  == cb[led_num + 1][2]
        blue   == cb[led_num + 1][3]
    IN  <<prefix, red, green, blue>>

LedRecord(led_num, cb, bb) ==
    LET prefix == led_prefix(bb[led_num + 1])
        red    == cb[led_num + 1][1]
        green  == cb[led_num + 1][2]
        blue   == cb[led_num + 1][3]
    IN  <<prefix, blue, green, red>>

RECURSIVE AssembleRange(_, _, _, _)
AssembleRange(lo, hi, cb, bb) ==
    IF hi <= lo THEN <<>>
    ELSE IF hi = lo + 1 THEN LedRecord(lo, cb, bb)
    ELSE LET mid == (lo + hi) \div 2
         IN  AssembleRange(lo, mid, cb, bb) \o AssembleRange(mid, hi, cb, bb)

assemble_spi_message(cb, bb) ==
    LET num_leds_local == Len(cb)
    IN  AssembleRange(0, num_leds_local, cb, bb)

(***************************************************************************)
(* Frame buffers the strip can hold.  A strip of up to MaxLen LEDs gets    *)
(* every buffer over the samples; a longer one gets the samples repeated   *)
(* along the strip, the colours starting at any of them.                   *)
(***************************************************************************)
ColorSamples == <<(<<255, 0, 0>>), (<<1, 2, 3>>), (<<0, 128, 255>>)>>
BrightnessSamples == <<0, 50, 100>>
ClockRates == {4000000, 8000000}

Repeated(samples, n, off) ==
    [i \in 1..n |-> samples[((i + off) % Len(samples)) + 1]]

Range(f) == {f[i] : i \in DOMAIN f}

ColorBuffers(n) ==
    IF n <= MaxLen THEN [1..n -> Range(ColorSamples)]
    ELSE {Repeated(ColorSamples, n, off) : off \in 0..(Len(ColorSamples) - 1)}

BrightnessBuffers(n) ==
    IF n <= MaxLen THEN [1..n -> Range(BrightnessSamples)]
    ELSE {Repeated(BrightnessSamples, n, 0)}

NumLedsChoices ==
    (1..MaxLen) \cup {LedsPerPadByte, LedsPerPadByte + 1}
                \cup {LedLimit, LedLimit + 1}

Zeros(n) == [i \in 1..n |-> 0]

(***************************************************************************)
(* APA102.initialize_strip_connection                                      *)
(***************************************************************************)
TooManyLedsOffByOne(n) == n >= LedLimit

TooManyLeds(n) == n > LedLimit

initialize_strip_connection ==
    /\ lastCall = "constructed"
    /\ lastCall' = "initialize_strip_connection"
    /\ IF TooManyLeds(num_leds)
       THEN /\ raised' = Exc("Exception", "does not support strips of more than 1024 LEDs", None)
            /\ spi' = spi
       ELSE /\ raised' = None
            /\ spi' = [bus |-> 0, device |-> 1, max_speed_hz |-> max_clock_speed_hz]
    /\ UNCHANGED <<num_leds, max_clock_speed_hz, color_buffer, brightness_buffer>>
    /\ UNCHANGED <<showVars, paramVars, runVars, wasSet, stopVars, pureVars>>

(***************************************************************************)
(* APA102.show and the three frames it clocks out.  ShowBegin is the call, *)
(* the four actions after it are the statements of show() in order.        *)
(***************************************************************************)
ShowBegin ==
    /\ showPc = "idle"
    /\ spi # None
    /\ showPc' = "clock_start_frame"
    /\ showCalls' = showCalls + 1
    /\ wire' = <<>>
    /\ spi_buffer' = <<>>
    /\ shown' = [colors |-> color_buffer, brightness |-> brightness_buffer,
                 prevColors |-> shown.colors,
                 prevBrightness |-> shown.brightness,
                 prevWire |-> wire]
    /\ UNCHANGED <<endLeft, xfers>>

\* "An optimized version of the driver could omit the clock_start_frame
\* method if enough zeroes have been sent as part of clock_end_frame."
clock_start_frame_omitted_after_end_frame ==
    /\ showPc = "clock_start_frame"
    /\ IF showCalls > 1
       THEN UNCHANGED <<wire, xfers>>
       ELSE /\ wire' = wire \o Zeros(4)
            /\ xfers' = xfers + 1
    /\ showPc' = "assemble"
    /\ UNCHANGED <<spi_buffer, endLeft, showCalls, shown>>
    /\ UNCHANGED <<driverVars, paramVars, runVars, obsVars, stopVars, pureVars>>

clock_start_frame ==
    /\ showPc = "clock_start_frame"
    /\ wire' = wire \o Zeros(4)
    /\ xfers' = xfers + 1
    /\ showPc' = "assemble"
    /\ UNCHANGED <<spi_buffer, endLeft, showCalls, shown>>
    /\ UNCHANGED <<driverVars, paramVars, runVars, obsVars, stopVars, pureVars>>

ShowAssemble ==
    /\ showPc = "assemble"
    /\ spi_buffer' = assemble_spi_message(color_buffer, brightness_buffer)
    /\ showPc' = "xfer2"
    /\ UNCHANGED <<endLeft, wire, xfers, showCalls, shown>>
    /\ UNCHANGED <<driverVars, paramVars, runVars, obsVars, stopVars, pureVars>>

EndFrameBytesHalved(n) == (n + 15) \div 32

EndFrameBytes(n) == (n + 15) \div LedsPerPadByte

ShowXfer ==
    /\ showPc = "xfer2"
    /\ wire' = wire \o spi_buffer
    /\ xfers' = xfers + 1
    /\ showPc' = "clock_end_frame"
    /\ endLeft' = EndFrameBytes(num_leds)
    /\ UNCHANGED <<spi_buffer, showCalls, shown>>
    /\ UNCHANGED <<driverVars, paramVars, runVars, obsVars, stopVars, pureVars>>

clock_end_frame ==
    /\ showPc = "clock_end_frame"
    /\ \/ /\ endLeft > 0
          /\ wire' = Append(wire, 0)
          /\ xfers' = xfers + 1
          /\ endLeft' = endLeft - 1
          /\ UNCHANGED showPc
       \/ /\ endLeft = 0
          /\ showPc' = "returned"
          /\ UNCHANGED <<wire, xfers, endLeft>>
    /\ UNCHANGED <<spi_buffer, showCalls, shown>>
    /\ UNCHANGED <<driverVars, paramVars, runVars, obsVars, stopVars, pureVars>>

ShowStep == clock_start_frame \/ ShowAssemble \/ ShowXfer \/ clock_end_frame

(***************************************************************************)
(* A client of the driver alone: it calls show() on an opened strip and    *)
(* takes the return.                                                       *)
(***************************************************************************)
ClientShow ==
    /\ lastCall \in {"initialize_strip_connection", "show"}
    /\ showCalls < MaxShows
    /\ ShowBegin
    /\ lastCall' = "show"
    /\ UNCHANGED <<raised, wasSet>>
    /\ UNCHANGED <<driverVars, paramVars, runVars, stopVars, pureVars>>

ClientShowReturn ==
    /\ lastCall = "show"
    /\ showPc = "returned"
    /\ showPc' = "idle"
    /\ UNCHANGED <<spi_buffer, endLeft, wire, xfers, showCalls, shown>>
    /\ UNCHANGED <<driverVars, paramVars, runVars, obsVars, stopVars, pureVars>>

SchedulerAbsent ==
    /\ pause_sec = None /\ num_steps_per_cycle = None /\ num_cycles = None
    /\ stop_show = FALSE /\ stopAt = NotStopped
    /\ pc = "absent" /\ currentStep = Unset /\ current_cycle = Unset
    /\ need_repaint = FALSE /\ pattern = "none" /\ trace = <<>>
    /\ wasSet = {}

ShowIdle ==
    /\ showPc = "idle" /\ spi_buffer = <<>> /\ endLeft = 0
    /\ wire = <<>> /\ xfers = 0 /\ showCalls = 0
    /\ shown = NothingShown

DriverInit ==
    /\ num_leds \in NumLedsChoices
    /\ max_clock_speed_hz \in ClockRates
    /\ spi = None
    /\ color_buffer \in ColorBuffers(num_leds)
    /\ brightness_buffer \in BrightnessBuffers(num_leds)
    /\ ShowIdle
    /\ SchedulerAbsent
    /\ raised = None /\ lastCall = "constructed"
    /\ arg = Unset /\ ret = Unset

DriverNext ==
    \/ initialize_strip_connection
    \/ ClientShow
    \/ ShowStep
    \/ ClientShowReturn

DriverSpec == DriverInit /\ [][DriverNext]_vars

(***************************************************************************)
(* The same client, now also writing the buffers between two show() calls: *)
(* one colour or one brightness of the first LED at a time.                *)
(***************************************************************************)
Unwritten ==
    color_buffer = shown.colors /\ brightness_buffer = shown.brightness

ClientWritesPixel ==
    /\ lastCall = "show"
    /\ showPc = "idle"
    /\ showCalls < MaxShows
    /\ Unwritten
    /\ \/ /\ \E c \in Range(ColorSamples) :
               /\ c # color_buffer[1]
               /\ color_buffer' = [color_buffer EXCEPT ![1] = c]
          /\ UNCHANGED brightness_buffer
       \/ /\ \E b \in Range(BrightnessSamples) :
               /\ b # brightness_buffer[1]
               /\ brightness_buffer' = [brightness_buffer EXCEPT ![1] = b]
          /\ UNCHANGED color_buffer
    /\ UNCHANGED <<num_leds, max_clock_speed_hz, spi>>
    /\ UNCHANGED <<showVars, paramVars, runVars, obsVars, stopVars, pureVars>>

RepaintInit ==
    /\ DriverInit
    /\ num_leds < LedLimit
    /\ max_clock_speed_hz = 8000000

RepaintNext ==
    \/ DriverNext
    \/ ClientWritesPixel

RepaintSpec == RepaintInit /\ [][RepaintNext]_vars

(***************************************************************************)
(* led_prefix on its own: one call with a brightness from the offered      *)
(* range.                                                                  *)
(***************************************************************************)
PrefixInit ==
    /\ arg \in 0..MaxBrightnessIn
    /\ ret = Unset
    /\ num_leds = 1 /\ max_clock_speed_hz = 8000000 /\ spi = None
    /\ color_buffer = <<ColorSamples[1]>>
    /\ brightness_buffer = <<BrightnessSamples[1]>>
    /\ ShowIdle
    /\ SchedulerAbsent
    /\ raised = None /\ lastCall = "constructed"

CallLedPrefix ==
    /\ ret = Unset
    /\ ret' = led_prefix(arg)
    /\ lastCall' = "led_prefix"
    /\ UNCHANGED <<arg, raised, wasSet>>
    /\ UNCHANGED <<driverVars, showVars, paramVars, runVars, stopVars>>

PrefixNext == CallLedPrefix

PrefixSpec == PrefixInit /\ [][PrefixNext]_vars

(***************************************************************************)
(* configparser.update_settings_tree.  A ConfigTree maps every key of Keys *)
(* to a value; Absent stands for a key the tree does not have.  A value is *)
(* a scalar or a ConfigTree.                                               *)
(***************************************************************************)
Keys == {"a", "b"}
Absent == [kind |-> "absent"]
Scalar(n) == [kind |-> "scalar", v |-> n]
ConfigTree(items) == [kind |-> "tree", items |-> items]
TypeError == [kind |-> "TypeError"]

Scalars == {Scalar(1), Scalar(2)}
FlatTrees == {ConfigTree(f) : f \in [Keys -> Scalars \cup {Absent}]}
NestedTrees ==
    {ConfigTree(f) : f \in [Keys -> Scalars \cup FlatTrees \cup {Absent}]}

IsEmpty(tree) == \A key \in Keys : tree.items[key] = Absent

\* updated = deepcopy(base); for key in update: ...; return updated.
\* With a base that is not a tree, "key in base" or "updated[key] = ..."
\* raises TypeError in the first pass of the loop; with no pass the copy of
\* base is returned.
RECURSIVE update_settings_tree(_, _)
update_settings_tree(base, update) ==
    IF base.kind # "tree"
    THEN IF IsEmpty(update) THEN base ELSE TypeError
    ELSE LET updated(key) ==
                 LET u == update.items[key]
                     b == base.items[key]
                 IN  IF u = Absent THEN b
                     ELSE IF u.kind = "tree"
                     THEN IF b # Absent
                          THEN update_settings_tree(b, u)
                          ELSE u
                     ELSE u
         IN  IF \E key \in Keys : updated(key) = TypeError
             THEN TypeError
             ELSE ConfigTree([key \in Keys |-> updated(key)])

MergeInit ==
    /\ arg \in [base : NestedTrees, update : NestedTrees]
    /\ ret = None
    /\ num_leds = 1 /\ max_clock_speed_hz = 8000000 /\ spi = None
    /\ color_buffer = <<ColorSamples[1]>>
    /\ brightness_buffer = <<BrightnessSamples[1]>>
    /\ ShowIdle
    /\ SchedulerAbsent
    /\ raised = None /\ lastCall = "constructed"

CallUpdateSettingsTree ==
    /\ lastCall = "constructed"
    /\ ret' = update_settings_tree(arg.base, arg.update)
    /\ lastCall' = "update_settings_tree"
    /\ UNCHANGED <<arg, raised, wasSet>>
    /\ UNCHANGED <<driverVars, showVars, paramVars, runVars, stopVars>>

MergeNext == CallUpdateSettingsTree

MergeSpec == MergeInit /\ [][MergeNext]_vars

(***************************************************************************)
(* verifyparameters.not_negative_numeric and positive_integer: TRUE when   *)
(* the guard raises InvalidParameters.                                     *)
(***************************************************************************)
not_negative_numeric_raises(testing) ==
    testing.type \notin {"float", "int"} \/ testing.v < 0

positive_integer_accepts_zero(testing) ==
    testing.type # "int" \/ testing.v < 0

positive_integer_raises(testing) ==
    testing.type # "int" \/ testing.v <= 0

ParamNames == {"pause_sec", "num_steps_per_cycle", "num_cycles", "speed"}

ParamValues ==
    {PyInt(n) : n \in (-1)..MaxParam}
        \cup {PyFloat(-1), PyFloat(1), PyFloat(4)}
        \cup {PyBool(TRUE), PyStr, None}

(***************************************************************************)
(* ColorCycle.init_parameters                                              *)
(***************************************************************************)
init_parameters ==
    /\ pause_sec = PyInt(0)
    /\ num_steps_per_cycle = None
    /\ num_cycles = PyInf

(***************************************************************************)
(* ColorCycle.set_parameter                                                *)
(***************************************************************************)
set_parameter(param_name, value) ==
    /\ pc = "idle"
    /\ lastCall' = "set_parameter"
    /\ IF param_name = "pause_sec" THEN
           IF not_negative_numeric_raises(value)
           THEN /\ raised' = Exc("InvalidParameters", "must be a non-negative number", param_name)
                /\ UNCHANGED <<paramVars, wasSet>>
           ELSE /\ pause_sec' = value
                /\ raised' = None
                /\ wasSet' = wasSet \cup {param_name}
                /\ UNCHANGED <<num_steps_per_cycle, num_cycles>>
       ELSE IF param_name = "num_steps_per_cycle" THEN
           IF positive_integer_raises(value)
           THEN /\ raised' = Exc("InvalidParameters", "must be a positive integer", param_name)
                /\ UNCHANGED <<paramVars, wasSet>>
           ELSE /\ num_steps_per_cycle' = value
                /\ raised' = None
                /\ wasSet' = wasSet \cup {param_name}
                /\ UNCHANGED <<pause_sec, num_cycles>>
       ELSE IF param_name = "num_cycles" THEN
           IF positive_integer_raises(value)
           THEN /\ raised' = Exc("InvalidParameters", "must be a positive integer", param_name)
                /\ UNCHANGED <<paramVars, wasSet>>
           ELSE /\ num_cycles' = value
                /\ raised' = None
                /\ wasSet' = wasSet \cup {param_name}
                /\ UNCHANGED <<pause_sec, num_steps_per_cycle>>
       ELSE /\ raised' = Exc("InvalidParameters", "unknown", param_name)
            /\ UNCHANGED <<paramVars, wasSet>>
    /\ UNCHANGED <<driverVars, showVars, runVars, stopVars, pureVars>>

SetParameter == \E param_name \in ParamNames, value \in ParamValues :
                    set_parameter(param_name, value)

(***************************************************************************)
(* ColorCycle.check_runnable: the first parameter that is None is named.   *)
(***************************************************************************)
MissingParameterNever == "nothing"

MissingParameter ==
    IF pause_sec = None THEN "pause_sec"
    ELSE IF num_steps_per_cycle = None THEN "num_steps_per_cycle"
    ELSE IF num_cycles = None THEN "num_cycles"
    ELSE "nothing"

check_runnable ==
    /\ pc = "idle"
    /\ lastCall' = "check_runnable"
    /\ raised' = IF MissingParameter = "nothing" THEN None
                 ELSE Exc("InvalidParameters", "Missing parameter", MissingParameter)
    /\ UNCHANGED wasSet
    /\ UNCHANGED <<driverVars, showVars, paramVars, runVars, stopVars, pureVars>>

(***************************************************************************)
(* The update() of a concrete pattern: what it returns for (step, cycle).  *)
(***************************************************************************)
Patterns == {"always", "never", "even_step", "odd_cycle"}

update(current_step, cycle) ==
    CASE pattern = "always"    -> TRUE
      [] pattern = "never"     -> FALSE
      [] pattern = "even_step" -> current_step % 2 = 0
      [] pattern = "odd_cycle" -> cycle % 2 = 1

(***************************************************************************)
(* ColorCycle.run, one action per statement.                               *)
(***************************************************************************)
\* run() is entered and calls self.before_start()
RunBeforeStart ==
    /\ pc = "idle"
    /\ lastCall' = "run"
    /\ raised' = None
    /\ \E p \in Patterns : pattern' = p
    /\ trace' = Append(trace, <<"before_start">>)
    /\ pc' = "show"
    /\ currentStep' = Unset
    /\ current_cycle' = Unset
    /\ UNCHANGED <<need_repaint, wasSet>>
    /\ UNCHANGED <<driverVars, showVars, paramVars, stopVars, pureVars>>

\* self.strip.show(), before the loop and after an update that asked for it
RunShow ==
    /\ pc \in {"show", "repaint"}
    /\ ShowBegin
    /\ trace' = Append(trace, <<"show">>)
    /\ pc' = IF pc = "show" THEN "show_wait" ELSE "repaint_wait"
    /\ UNCHANGED <<currentStep, current_cycle, need_repaint, pattern>>
    /\ UNCHANGED <<driverVars, paramVars, obsVars, stopVars, pureVars>>

\* range(self.num_steps_per_cycle) and the first pass of the for loop
ForFirstStep ==
    IF num_steps_per_cycle.type # "int"
    THEN /\ raised' = Exc("TypeError", "object cannot be interpreted as an integer", None)
         /\ pc' = "raised"
         /\ UNCHANGED currentStep
    ELSE /\ currentStep' = 0
         /\ pc' = "update"
         /\ UNCHANGED raised

\* the initial show() has returned: current_cycle = 0, the loops are entered
RunEnterLoopUnlessStopped ==
    /\ pc = "show_wait"
    /\ showPc = "returned"
    /\ showPc' = "idle"
    /\ current_cycle' = 0
    /\ IF stop_show
       THEN /\ pc' = "cleanup"
            /\ UNCHANGED <<currentStep, raised>>
       ELSE ForFirstStep
    /\ UNCHANGED <<need_repaint, pattern, trace, lastCall, wasSet>>
    /\ UNCHANGED <<spi_buffer, endLeft, wire, xfers, showCalls, shown>>
    /\ UNCHANGED <<driverVars, paramVars, stopVars, pureVars>>

RunEnterLoop ==
    /\ pc = "show_wait"
    /\ showPc = "returned"
    /\ showPc' = "idle"
    /\ current_cycle' = 0
    /\ ForFirstStep
    /\ UNCHANGED <<need_repaint, pattern, trace, lastCall, wasSet>>
    /\ UNCHANGED <<spi_buffer, endLeft, wire, xfers, showCalls, shown>>
    /\ UNCHANGED <<driverVars, paramVars, stopVars, pureVars>>

\* need_repaint = self.update(currentStep, current_cycle)
\* if need_repaint: self.strip.show()
RepaintAlways(repaint) == TRUE

Repaint(repaint) == repaint

RunUpdate ==
    /\ pc = "update"
    /\ need_repaint' = update(currentStep, current_cycle)
    /\ trace' = Append(trace, <<"update", currentStep, current_cycle, need_repaint'>>)
    /\ pc' = IF Repaint(need_repaint') THEN "repaint" ELSE "sleep"
    /\ UNCHANGED <<currentStep, current_cycle, pattern>>
    /\ UNCHANGED <<driverVars, showVars, paramVars, obsVars, stopVars, pureVars>>

\* the show() asked for by update() has returned
RunRepainted ==
    /\ pc = "repaint_wait"
    /\ showPc = "returned"
    /\ showPc' = "idle"
    /\ pc' = "sleep"
    /\ UNCHANGED <<currentStep, current_cycle, need_repaint, pattern, trace>>
    /\ UNCHANGED <<spi_buffer, endLeft, wire, xfers, showCalls, shown>>
    /\ UNCHANGED <<driverVars, paramVars, obsVars, stopVars, pureVars>>

\* time.sleep(self.pause_sec), then the for loop's next pass or its end
ForHasNextUnlessStopped == ~stop_show /\ currentStep + 1 < num_steps_per_cycle.v

ForHasNext == currentStep + 1 < num_steps_per_cycle.v

RunSleepUnlessZero ==
    /\ pc = "sleep"
    /\ trace' = IF pause_sec.v = 0 THEN trace
                ELSE Append(trace, <<"sleep", pause_sec>>)
    /\ IF ForHasNext
       THEN /\ currentStep' = currentStep + 1
            /\ pc' = "update"
       ELSE /\ pc' = "next_cycle"
            /\ UNCHANGED currentStep
    /\ UNCHANGED <<current_cycle, need_repaint, pattern>>
    /\ UNCHANGED <<driverVars, showVars, paramVars, obsVars, stopVars, pureVars>>

RunSleep ==
    /\ pc = "sleep"
    /\ trace' = Append(trace, <<"sleep", pause_sec>>)
    /\ IF ForHasNext
       THEN /\ currentStep' = currentStep + 1
            /\ pc' = "update"
       ELSE /\ pc' = "next_cycle"
            /\ UNCHANGED currentStep
    /\ UNCHANGED <<current_cycle, need_repaint, pattern>>
    /\ UNCHANGED <<driverVars, showVars, paramVars, obsVars, stopVars, pureVars>>

\* current_cycle += 1
RunNextCycle ==
    /\ pc = "next_cycle"
    /\ current_cycle' = current_cycle + 1
    /\ pc' = "check"
    /\ UNCHANGED <<currentStep, need_repaint, pattern, trace>>
    /\ UNCHANGED <<driverVars, showVars, paramVars, obsVars, stopVars, pureVars>>

\* if current_cycle >= self.num_cycles or self.__stop_show: break
CyclesReached(cycle, limit) ==
    IF limit.type = "float_inf" THEN FALSE ELSE cycle >= limit.v

StopConditionIgnoringStop == CyclesReached(current_cycle, num_cycles)

StopConditionOffByOne ==
    CyclesReached(current_cycle + 1, num_cycles) \/ stop_show

StopConditionStrictlyGreater ==
    CyclesReached(current_cycle - 1, num_cycles) \/ stop_show

StopCondition == CyclesReached(current_cycle, num_cycles) \/ stop_show

RunCheck ==
    /\ pc = "check"
    /\ IF StopCondition
       THEN /\ pc' = "cleanup"
            /\ UNCHANGED <<currentStep, raised>>
       ELSE /\ current_cycle < MaxCycle
            /\ ForFirstStep
    /\ UNCHANGED <<current_cycle, need_repaint, pattern, trace, lastCall, wasSet>>
    /\ UNCHANGED <<driverVars, showVars, paramVars, stopVars, pureVars>>

\* cleanup(): self.shutdown()
RunShutdownSkipped ==
    /\ pc = "cleanup"
    /\ pc' = "sync_up"
    /\ UNCHANGED <<currentStep, current_cycle, need_repaint, pattern, trace>>
    /\ UNCHANGED <<driverVars, showVars, paramVars, obsVars, stopVars, pureVars>>

RunShutdown ==
    /\ pc = "cleanup"
    /\ trace' = Append(trace, <<"shutdown">>)
    /\ pc' = "sync_up"
    /\ UNCHANGED <<currentStep, current_cycle, need_repaint, pattern>>
    /\ UNCHANGED <<driverVars, showVars, paramVars, obsVars, stopVars, pureVars>>

\* cleanup(): self.strip.sync_up(), and run() returns
RunSyncUp ==
    /\ pc = "sync_up"
    /\ trace' = Append(trace, <<"sync_up">>)
    /\ pc' = "done"
    /\ UNCHANGED <<currentStep, current_cycle, need_repaint, pattern>>
    /\ UNCHANGED <<driverVars, showVars, paramVars, obsVars, stopVars, pureVars>>

(***************************************************************************)
(* The stop request: the flag is raised from outside the loop, at any      *)
(* moment before run() has ended.                                          *)
(***************************************************************************)
IsUpdate(e) == e[1] \in {"update", "update_raised"}

\* the (step, cycle) arguments of the update() calls made so far, in order
Calls ==
    LET u == SelectSeq(trace, IsUpdate)
    IN  [i \in 1..Len(u) |-> <<u[i][2], u[i][3]>>]

CycleRunning ==
    IF pc \in {"idle", "show", "show_wait", "raised"} THEN 0
    ELSE IF pc \in {"check", "cleanup", "sync_up", "done"} THEN current_cycle - 1
    ELSE current_cycle

Stop ==
    /\ ~stop_show
    /\ pc \notin {"done", "raised"}
    /\ stop_show' = TRUE
    /\ stopAt' = [cycle |-> CycleRunning, updates |-> Len(Calls),
                  entered |-> pc # "idle"]
    /\ UNCHANGED <<driverVars, showVars, paramVars, runVars, obsVars, pureVars>>

Init ==
    /\ num_leds = 1
    /\ max_clock_speed_hz = 8000000
    /\ spi = [bus |-> 0, device |-> 1, max_speed_hz |-> max_clock_speed_hz]
    /\ color_buffer = <<ColorSamples[1]>>
    /\ brightness_buffer = <<BrightnessSamples[3]>>
    /\ ShowIdle
    /\ init_parameters
    /\ stop_show = FALSE /\ stopAt = NotStopped
    /\ pc = "idle" /\ currentStep = Unset /\ current_cycle = Unset
    /\ need_repaint = FALSE /\ pattern = "none" /\ trace = <<>>
    /\ raised = None /\ lastCall = "init_parameters" /\ wasSet = {}
    /\ arg = Unset /\ ret = Unset

RunBody ==
    \/ RunShow
    \/ RunEnterLoop
    \/ RunUpdate
    \/ RunRepainted
    \/ RunSleep
    \/ RunNextCycle
    \/ RunCheck
    \/ RunShutdown
    \/ RunSyncUp

Next ==
    \/ SetParameter
    \/ check_runnable
    \/ RunBeforeStart
    \/ RunBody
    \/ ShowStep
    \/ Stop

Spec == Init /\ [][Next]_vars

(***************************************************************************)
(* Failures.  run() has no try/except: an exception raised by update() or  *)
(* by spi.xfer2 inside show() leaves show() and run() at once.             *)
(***************************************************************************)
RunAfterHookErrorCleanup == "cleanup"

\* where run() is after update() has raised
RunAfterHookError == "raised"

\* self.update(currentStep, current_cycle) raises
RunUpdateRaises ==
    /\ pc = "update"
    /\ trace' = Append(trace, <<"update_raised", currentStep, current_cycle>>)
    /\ raised' = Exc("RuntimeError", "raised by update()", None)
    /\ pc' = RunAfterHookError
    /\ UNCHANGED <<currentStep, current_cycle, need_repaint, pattern>>
    /\ UNCHANGED <<lastCall, wasSet>>
    /\ UNCHANGED <<driverVars, showVars, paramVars, stopVars, pureVars>>

RunAfterBusErrorCleanup == "cleanup"

\* where run() is after the show() it called has raised
RunAfterBusError == "raised"

\* the spi.xfer2 call show() is about to make raises
xfer2_raises ==
    /\ pc \in {"show_wait", "repaint_wait"}
    /\ \/ showPc \in {"clock_start_frame", "xfer2"}
       \/ showPc = "clock_end_frame" /\ endLeft > 0
    /\ showPc' = "raised"
    /\ xfers' = xfers + 1
    /\ raised' = Exc("OSError", "spi.xfer2 failed", None)
    /\ pc' = RunAfterBusError
    /\ UNCHANGED <<spi_buffer, endLeft, wire, showCalls, shown>>
    /\ UNCHANGED <<currentStep, current_cycle, need_repaint, pattern, trace>>
    /\ UNCHANGED <<lastCall, wasSet>>
    /\ UNCHANGED <<driverVars, paramVars, stopVars, pureVars>>

FaultNext ==
    \/ Next
    \/ RunUpdateRaises
    \/ xfer2_raises

FaultSpec == Init /\ [][FaultNext]_vars

\* once entered, run() and the show() it calls keep executing their next
\* statement
FairSpec == Spec /\ WF_vars(RunBody) /\ WF_vars(ShowStep)

(***************************************************************************)
(*                              The claims                                 *)
(***************************************************************************)
IsPrefix(a, b) == Len(a) <= Len(b) /\ a = SubSeq(b, 1, Len(a))

\* the update() arguments of num_cycles_n full cycles of steps_n steps
ExpectedCalls(steps_n, num_cycles_n) ==
    [k \in 1..(steps_n * num_cycles_n) |-> <<(k - 1) % steps_n, (k - 1) \div steps_n>>]

LoopLeft == pc \in {"cleanup", "sync_up", "done"}

\* C1: with num_steps_per_cycle = S and a finite num_cycles = C and no stop
\* request raised, the update() calls of run() are at every moment an initial
\* part of (0,0),(1,0),...,(S-1,0),(0,1),...,(S-1,C-1); an update is only
\* about to be invoked while fewer than S*C were made; and once the loop is
\* left exactly these S*C calls were made.
C1_UpdateSchedule ==
    (/\ lastCall = "run"
     /\ num_steps_per_cycle.type = "int"
     /\ num_cycles.type = "int"
     /\ ~stop_show)
    => LET S == num_steps_per_cycle.v
           C == num_cycles.v
       IN  /\ IsPrefix(Calls, ExpectedCalls(S, C))
           /\ pc = "update" => Len(Calls) < S * C
           /\ LoopLeft => Calls = ExpectedCalls(S, C)

\* C1 witness: a run of 3 steps and 2 cycles has ended after exactly 6 calls.
C1_Witness ==
    /\ pc = "done" /\ ~stop_show
    /\ num_steps_per_cycle = PyInt(3) /\ num_cycles = PyInt(2)
    /\ Calls = <<(<<0, 0>>), (<<1, 0>>), (<<2, 0>>), (<<0, 1>>), (<<1, 1>>), (<<2, 1>>)>>

\* C2: after a stop request raised while cycle c was running, the loop is
\* left only with every step 0..S-1 of cycle c passed to update(), with all
\* begun cycles complete, and with the cycle counter already past c (the
\* flag is looked at only after current_cycle += 1).
C2_StopWaitsForCycleEnd ==
    (stop_show /\ LoopLeft)
    => LET S == num_steps_per_cycle.v
       IN  /\ \A step \in 0..(S - 1) :
                  \E i \in 1..Len(Calls) : Calls[i] = <<step, stopAt.cycle>>
           /\ Calls = ExpectedCalls(S, current_cycle)
           /\ current_cycle > stopAt.cycle

\* C2 witness: the stop came after the first of three updates of cycle 0 of
\* an unbounded run, and the run ended after all three.
C2_Witness ==
    /\ pc = "done" /\ stop_show
    /\ num_cycles = PyInf /\ num_steps_per_cycle = PyInt(3)
    /\ stopAt.cycle = 0 /\ stopAt.updates = 1
    /\ Len(Calls) = 3

\* C3 (safety part): after a stop request raised while cycle c was running
\* no update() of a later cycle is invoked, and the loop is left with the
\* cycle counter at c + 1.
C3_NoUpdateAfterBoundary ==
    stop_show
    => /\ \A i \in 1..Len(Calls) : Calls[i][2] <= stopAt.cycle
       /\ LoopLeft => current_cycle = stopAt.cycle + 1
       /\ pc = "done" => /\ trace[Len(trace)] = <<"sync_up">>
                         /\ trace[Len(trace) - 1] = <<"shutdown">>
                         /\ raised = None

\* C3: the safety part always, and a run in its loop with the stop request
\* raised (num_steps_per_cycle being set) ends normally through cleanup,
\* the hooks, the bus and the sleep returning.
C3_StopEndsRunAtBoundary ==
    /\ []C3_NoUpdateAfterBoundary
    /\ (stop_show /\ lastCall = "run" /\ num_steps_per_cycle # None) ~> (pc = "done")

\* C3 witness: an unbounded run was stopped during cycle 1 and has ended
\* after two cycles.
C3_Witness ==
    /\ pc = "done" /\ stop_show
    /\ num_cycles = PyInf
    /\ stopAt.cycle = 1 /\ stopAt.updates > num_steps_per_cycle.v
    /\ current_cycle = 2

CeilDiv(n, d) == IF n % d = 0 THEN n \div d ELSE (n \div d) + 1

\* payload byte k (from 0) as the wire format states it: LED k \div 4, and of
\* it the prefix, blue, green or red
WireByte(k) ==
    LET led == (k \div 4) + 1
    IN  CASE k % 4 = 0 -> led_prefix(brightness_buffer[led])
          [] k % 4 = 1 -> color_buffer[led][3]
          [] k % 4 = 2 -> color_buffer[led][2]
          [] k % 4 = 3 -> color_buffer[led][1]

WirePayload == [k \in 1..(4 * num_leds) |-> WireByte(k - 1)]

WireFrame == Zeros(4) \o WirePayload \o Zeros(CeilDiv(num_leds, 16))

\* C4: for a strip of N in 1..1024 LEDs with buffers of length N, what one
\* show() has put on the bus is at every moment an initial part of: 4 zero
\* bytes, the 4*N payload bytes, ceil(N/16) zero bytes; when show() returns
\* it is all of it, 4 + 4*N + ceil(N/16) bytes (N = 16 pads 1 byte, N = 17
\* pads 2).
C4_ShowFrame ==
    (/\ showPc # "idle"
     /\ num_leds \in 1..1024
     /\ Len(color_buffer) = num_leds
     /\ Len(brightness_buffer) = num_leds)
    => /\ IsPrefix(wire, WireFrame)
       /\ showPc = "returned" =>
              /\ wire = WireFrame
              /\ Len(wire) = 4 + 4 * num_leds + CeilDiv(num_leds, 16)
              /\ num_leds = 16 => Len(wire) = 4 + 64 + 1
              /\ num_leds = 17 => Len(wire) = 4 + 68 + 2

\* C4 witness: show() has returned on a strip of 17 LEDs.
C4_Witness ==
    /\ showPc = "returned" /\ num_leds = 17
    /\ Len(wire) = 74

\* C5: the message assemble_spi_message returned for buffers of length N
\* (channels in 0..255, brightness in 0..100) has 4*N bytes, and bytes
\* 4i..4i+3 are led_prefix(brightness[i]), blue[i], green[i], red[i].
C5_AssembledPayload ==
    (/\ showPc \in {"xfer2", "clock_end_frame", "returned"}
     /\ Len(brightness_buffer) = Len(color_buffer)
     /\ \A i \in 1..Len(color_buffer) :
            /\ brightness_buffer[i] \in 0..100
            /\ \A c \in 1..3 : color_buffer[i][c] \in 0..255)
    => /\ Len(spi_buffer) = 4 * Len(color_buffer)
       /\ \A i \in 0..(Len(color_buffer) - 1) :
              /\ spi_buffer[4 * i + 1] = led_prefix(brightness_buffer[i + 1])
              /\ spi_buffer[4 * i + 2] = color_buffer[i + 1][3]
              /\ spi_buffer[4 * i + 3] = color_buffer[i + 1][2]
              /\ spi_buffer[4 * i + 4] = color_buffer[i + 1][1]

\* C5 witness: a message was assembled for two LEDs of different colour and
\* brightness, the second one (1, 2, 3) at brightness 50.
C5_Witness ==
    /\ showPc = "xfer2" /\ num_leds = 2
    /\ color_buffer = <<(<<255, 0, 0>>), (<<1, 2, 3>>)>>
    /\ brightness_buffer = <<100, 50>>
    /\ spi_buffer = <<255, 0, 0, 255, 240, 3, 2, 1>>

\* brightness * 31 / 100 rounded to the nearest integer, a half going up
RoundHalfUp(brightness) == (2 * 31 * brightness + 100) \div 200

\* C6: for brightness b in 0..100, led_prefix(b) is 0b11100000 with the low
\* five bits of m in place of its zeros, m being b*31/100 rounded to the
\* nearest integer, halves away from zero; led_prefix(0) = 224,
\* led_prefix(100) = 255, led_prefix(50) = 240.
C6_LedPrefixValue ==
    (lastCall = "led_prefix" /\ arg \in 0..100)
    => /\ ret = 224 + (RoundHalfUp(arg) % 32)
       /\ arg = 0 => ret = 224
       /\ arg = 100 => ret = 255
       /\ arg = 50 => ret = 240

\* C6 witness: led_prefix(50) was computed, 15.5 having gone to 16.
C6_Witness == lastCall = "led_prefix" /\ arg = 50 /\ ret = 224 + 16

\* C7: initialize_strip_connection on a strip of 1..1024 LEDs ends without an
\* exception and with the bus opened; on a strip of more than 1024 LEDs it
\* raises the LED-limit error, no bus handle exists and nothing was sent.
C7_InitializeLedLimit ==
    lastCall = "initialize_strip_connection"
    => IF num_leds > 1024
       THEN /\ raised # None
            /\ raised.type = "Exception"
            /\ spi = None
            /\ xfers = 0
       ELSE num_leds \in 1..1024 =>
                /\ raised = None
                /\ spi # None
                /\ spi.max_speed_hz = max_clock_speed_hz

\* C7 witness: initialization of a strip of 1025 LEDs has failed.
C7_Witness ==
    /\ lastCall = "initialize_strip_connection"
    /\ num_leds = 1025 /\ raised # None /\ spi = None

AllThree == {"pause_sec", "num_steps_per_cycle", "num_cycles"}

\* C8 as stated: check_runnable succeeds only after pause_sec,
\* num_steps_per_cycle and num_cycles have all been set with set_parameter,
\* and a failure names a parameter that was not set.
C8_AllThreeRequired ==
    lastCall = "check_runnable"
    => IF AllThree \subseteq wasSet
       THEN raised = None
       ELSE /\ raised # None
            /\ raised.type = "InvalidParameters"
            /\ raised.param \in AllThree \ wasSet

\* C8 amended: from a freshly initialised ColorCycle, check_runnable fails
\* with InvalidParameters naming num_steps_per_cycle exactly when
\* num_steps_per_cycle has not been set; pause_sec and num_cycles have
\* defaults and need not be set.
C8_StepsRequired ==
    lastCall = "check_runnable"
    => IF "num_steps_per_cycle" \in wasSet
       THEN raised = None
       ELSE raised = Exc("InvalidParameters", "Missing parameter", "num_steps_per_cycle")

\* C8 witness: check_runnable has succeeded with only num_steps_per_cycle
\* set.
C8_Witness ==
    /\ lastCall = "check_runnable" /\ raised = None
    /\ wasSet = {"num_steps_per_cycle"}

NonNegativeNumber(value) == value.type \in {"int", "float"} /\ value.v >= 0

PositiveInteger(value) == value.type = "int" /\ value.v >= 1

Rejected(param_name, value) ==
    \/ param_name \notin AllThree
    \/ param_name = "pause_sec" /\ ~NonNegativeNumber(value)
    \/ param_name \in {"num_steps_per_cycle", "num_cycles"} /\ ~PositiveInteger(value)

Stored(param_name) ==
    CASE param_name = "pause_sec" -> pause_sec
      [] param_name = "num_steps_per_cycle" -> num_steps_per_cycle
      [] param_name = "num_cycles" -> num_cycles

\* C9: every set_parameter(name, value) with an unknown name, a pause_sec
\* that is not a non-negative number, or a num_steps_per_cycle / num_cycles
\* that is not a positive integer raises InvalidParameters for that name and
\* leaves the three stored parameters as they were; every other call stores
\* the value under that name and leaves the other two as they were.
C9_SetParameterGuards ==
    [][\A param_name \in ParamNames, value \in ParamValues :
          set_parameter(param_name, value)
          => IF Rejected(param_name, value)
             THEN /\ raised'.type = "InvalidParameters"
                  /\ raised'.param = param_name
                  /\ paramVars' = paramVars
             ELSE /\ raised' = None
                  /\ Stored(param_name)' = value
                  /\ \A other \in AllThree \ {param_name} :
                         Stored(other)' = Stored(other)]_vars

\* C9 witness: a rejected num_steps_per_cycle left the value set before.
C9_Witness ==
    /\ lastCall = "set_parameter"
    /\ raised.type = "InvalidParameters"
    /\ raised.param = "num_steps_per_cycle"
    /\ num_steps_per_cycle = PyInt(2)

\* C10 as stated: a run() entered with num_steps_per_cycle never set has
\* not invoked strip.show() nor sent anything on the bus.
C10_NoIoBeforeFailure ==
    (lastCall = "run" /\ num_steps_per_cycle = None)
    => (showCalls = 0 /\ xfers = 0)

(***************************************************************************)
(* The order of the calls run() makes.                                     *)
(***************************************************************************)
Event(i) == trace[i][1]

Count(name) == Cardinality({i \in 1..Len(trace) : Event(i) = name})

\* C11: once the loop is left, run() calls shutdown() once and then
\* strip.sync_up() once: shutdown comes after every update, show and sleep,
\* nothing but the one sync_up follows it, and a run that has returned ends
\* with exactly these two calls.
C11_CleanupOnceInOrder ==
    /\ \A i \in 1..Len(trace) :
          /\ Event(i) = "shutdown"
             => /\ \A j \in 1..(i - 1) : Event(j) \notin {"shutdown", "sync_up"}
                /\ \A j \in (i + 1)..Len(trace) : Event(j) = "sync_up"
          /\ Event(i) = "sync_up"
             => i > 1 /\ Event(i - 1) = "shutdown" /\ i = Len(trace)
    /\ pc = "cleanup" => Count("shutdown") = 0 /\ Count("sync_up") = 0
    /\ pc = "sync_up" => Count("shutdown") = 1 /\ Count("sync_up") = 0
    /\ pc = "done" => Count("shutdown") = 1 /\ Count("sync_up") = 1
    /\ pc \notin {"sync_up", "done"} => Count("shutdown") = 0

\* C11 witness: a stopped run of two steps has returned; its last update is
\* followed by its sleep, then shutdown, then sync_up.
C11_Witness ==
    /\ pc = "done" /\ stop_show
    /\ num_steps_per_cycle = PyInt(2)
    /\ Len(trace) >= 4
    /\ Event(Len(trace) - 3) = "update"
    /\ Event(Len(trace) - 2) = "sleep"
    /\ Event(Len(trace) - 1) = "shutdown"
    /\ Event(Len(trace)) = "sync_up"

\* C13: an update() that raises is the last call run() makes: the error
\* leaves run(), no update, show or sleep follows, and neither shutdown()
\* nor strip.sync_up() is called.
C13_UpdateErrorLeavesRun ==
    \A i \in 1..Len(trace) :
        Event(i) = "update_raised"
        => /\ i = Len(trace)
           /\ pc = "raised"
           /\ raised.type = "RuntimeError"
           /\ Count("shutdown") = 0 /\ Count("sync_up") = 0

\* C13 witness: update() raised at step 1 of cycle 1, after calls that
\* returned.
C13_Witness ==
    /\ pc = "raised"
    /\ Len(trace) > 0
    /\ trace[Len(trace)] = <<"update_raised", 1, 1>>
    /\ Len(Calls) = num_steps_per_cycle.v + 2
    /\ Count("show") > 1

\* C14: when a bus transfer fails inside a show() that run() called, for the
\* initial frame or after an update, the error leaves show() and run(): the
\* failing show is the last call run() makes, it is not called again, the
\* bytes on the bus stay a proper initial part of the frame, and neither
\* shutdown() nor strip.sync_up() is called.
C14_AfterBusError ==
    showPc = "raised"
    => /\ pc = "raised"
       /\ raised.type = "OSError"
       /\ Len(trace) > 0 /\ Event(Len(trace)) = "show"
       /\ showCalls = Count("show")
       /\ IsPrefix(wire, WireFrame) /\ Len(wire) < Len(WireFrame)
       /\ Count("shutdown") = 0 /\ Count("sync_up") = 0

C14_BusErrorLeavesRun ==
    /\ []C14_AfterBusError
    /\ [][showPc = "raised"
            => UNCHANGED <<showPc, wire, xfers, showCalls, trace, pc>>]_vars

\* C14 witness: the show() after an update sent the start frame and the
\* payload; the transfer of the end frame byte failed.
C14_Witness ==
    /\ showPc = "raised" /\ pc = "raised"
    /\ Count("update") > 0 /\ showCalls > 1
    /\ Len(wire) = 4 + 4 * num_leds
    /\ xfers = 3 * (showCalls - 1) + 3

\* C12: a show() that is given the same colour and brightness buffers as
\* the show() before it puts the same bytes on the bus, and no step of
\* show(), assemble_spi_message included, changes the colour buffer, the
\* brightness buffer or num_leds.
C12_SameBuffers ==
    /\ showCalls > 1
    /\ shown.colors = shown.prevColors
    /\ shown.brightness = shown.prevBrightness

C12_SameFrame ==
    (showPc = "returned" /\ C12_SameBuffers) => wire = shown.prevWire

C12_ShowRepeatable ==
    /\ []C12_SameFrame
    /\ [][(showPc # "idle" \/ showPc' # "idle")
            => UNCHANGED <<num_leds, color_buffer, brightness_buffer>>]_vars

\* C12 witness: the second of two show() calls on unchanged buffers of a
\* 17-LED strip has returned with the 74 bytes of the first.
C12_Witness ==
    /\ showPc = "returned" /\ C12_SameBuffers
    /\ num_leds = LedsPerPadByte + 1
    /\ Len(wire) = 74 /\ wire = shown.prevWire

\* the recorded calls of update() that returned true
TrueUpdates ==
    {i \in 1..Len(trace) : Event(i) = "update" /\ trace[i][4]}

\* C15: before_start() is run()'s first call and is called once; the second
\* call is the initial strip.show(), before any update; after that a show
\* is called exactly where the call before it is an update() that returned
\* true; a run that has returned made 1 + (number of updates that returned
\* true) show calls.
C15_ShowSchedule ==
    /\ Len(trace) >= 1
       => trace[1] = <<"before_start">> /\ Count("before_start") = 1
    /\ Len(trace) >= 2 => Event(2) = "show"
    /\ \A i \in 3..Len(trace) : Event(i) = "show" <=> (i - 1) \in TrueUpdates
    /\ pc = "repaint" <=> (Len(trace) > 0 /\ Len(trace) \in TrueUpdates)
    /\ Count("show") = showCalls
    /\ pc = "done" => showCalls = 1 + Cardinality(TrueUpdates)

\* C15 witness: a returned run of 3 steps and 1 cycle whose update() asked
\* for a repaint at steps 0 and 2 made 3 show calls.
C15_Witness ==
    /\ pc = "done" /\ ~stop_show
    /\ pattern = "even_step"
    /\ num_steps_per_cycle = PyInt(3) /\ num_cycles = PyInt(1)
    /\ showCalls = 3
    /\ trace[4] = <<"show">> /\ Event(5) = "sleep" /\ Event(6) = "update"
    /\ Event(7) = "sleep"

\* C16: every update() that returned is followed by one sleep of pause_sec,
\* directly or after the show it asked for; a sleep follows nothing else and
\* is followed only by the next update or, after the cycle boundary check,
\* by shutdown; whenever run() is not between an update and its sleep the
\* sleeps are as many as the updates that returned, also with a pause_sec
\* of 0 and after the last step of the last cycle.
C16_SleepAfterEveryUpdate ==
    /\ \A i \in 1..Len(trace) :
          /\ Event(i) = "sleep"
             => /\ trace[i] = <<"sleep", pause_sec>>
                /\ i > 2
                /\ \/ Event(i - 1) = "update" /\ (i - 1) \notin TrueUpdates
                   \/ Event(i - 1) = "show" /\ (i - 2) \in TrueUpdates
                /\ i < Len(trace)
                   => Event(i + 1) \in {"update", "update_raised", "shutdown"}
          /\ (Event(i) = "update" /\ i < Len(trace))
             => IF i \in TrueUpdates
                THEN /\ Event(i + 1) = "show"
                     /\ i + 1 < Len(trace) => Event(i + 2) = "sleep"
                ELSE Event(i + 1) = "sleep"
    /\ Count("update") - Count("sleep") \in {0, 1}
    /\ pc \in {"update", "next_cycle", "check", "cleanup", "sync_up", "done"}
       => Count("sleep") = Count("update")

\* C16 witness: a returned run of 2 steps and 2 cycles with pause_sec = 0
\* slept 4 times, the last time right before shutdown.
C16_Witness ==
    /\ pc = "done" /\ ~stop_show
    /\ pause_sec = PyInt(0)
    /\ num_steps_per_cycle = PyInt(2) /\ num_cycles = PyInt(2)
    /\ Count("update") = 4 /\ Count("sleep") = 4
    /\ trace[Len(trace) - 2] = <<"sleep", PyInt(0)>>

\* C17: every step passed to update() is in 0..S-1 and every cycle passed
\* is at least 0 and below num_cycles; the cycle counter stays in
\* 0..num_cycles; it changes only by +1, and only when the S calls of the
\* cycle it counted have all been made.
C17_CountersInRange ==
    (lastCall = "run" /\ num_steps_per_cycle.type = "int")
    => LET S == num_steps_per_cycle.v
       IN  /\ \A k \in 1..Len(Calls) :
                 /\ Calls[k][1] \in 0..(S - 1)
                 /\ Calls[k][2] >= 0
                 /\ ~CyclesReached(Calls[k][2], num_cycles)
           /\ pc \in {"update", "repaint", "repaint_wait", "sleep"}
              => /\ currentStep \in 0..(S - 1)
                 /\ ~CyclesReached(current_cycle, num_cycles)
           /\ current_cycle # Unset
              => /\ current_cycle >= 0
                 /\ ~CyclesReached(current_cycle - 1, num_cycles)

C17_CycleCounterStep ==
    current_cycle' # current_cycle
    => \/ current_cycle = Unset /\ current_cycle' = 0 /\ Calls = <<>>
       \/ /\ current_cycle # Unset
          /\ current_cycle' = current_cycle + 1
          /\ Len(Calls) = num_steps_per_cycle.v * current_cycle'
          /\ Calls[Len(Calls)] = <<num_steps_per_cycle.v - 1, current_cycle>>
          /\ trace' = trace

C17_CycleAndStepBounds ==
    []C17_CountersInRange /\ [][C17_CycleCounterStep]_vars

\* C17 witness: at the boundary check after the last of 2 cycles of 3 steps
\* the counter has reached num_cycles, after 6 calls.
C17_Witness ==
    /\ pc = "check"
    /\ num_steps_per_cycle = PyInt(3) /\ num_cycles = PyInt(2)
    /\ current_cycle = 2
    /\ Len(Calls) = 6 /\ Calls[6] = <<2, 1>>

\* C19: the loop is never left before one whole cycle: whenever run() is
\* past the loop, before_start(), the initial show() and the calls
\* update(0, 0) .. update(S-1, 0) have been made, in this order, also when
\* the stop request was raised before run() was called or before the first
\* update.
C19_FirstCycleAlwaysRuns ==
    LoopLeft
    => LET S == IF num_steps_per_cycle.type = "int"
                THEN num_steps_per_cycle.v ELSE 1
       IN  /\ Len(trace) >= 2 + S
           /\ trace[1] = <<"before_start">>
           /\ trace[2] = <<"show">>
           /\ Len(Calls) >= S
           /\ \A k \in 1..S : Calls[k] = <<k - 1, 0>>
           /\ current_cycle >= 1

\* C19 witness: stop was raised before run() was called; the run has
\* returned after the 3 calls of cycle 0.
C19_Witness ==
    /\ pc = "done"
    /\ stop_show /\ ~stopAt.entered
    /\ num_steps_per_cycle = PyInt(3)
    /\ Calls = <<(<<0, 0>>), (<<1, 0>>), (<<2, 0>>)>>

\* C20: for every brightness b >= 0 offered, above 100 as well, led_prefix(b)
\* is a byte in 224..255, its top three bits set; on 0..100 it does not
\* decrease as b grows; a b whose rounded b*31/100 is 32 or more is neither
\* rejected nor held at 255: the mask keeps the low five bits, so that 32
\* gives 224, the byte of brightness 0.
C20_LedPrefixWraps ==
    lastCall = "led_prefix"
    => /\ ret \in 224..255
       /\ ret \div 32 = 7
       /\ arg \in 1..100 => led_prefix(arg - 1) <= ret
       /\ RoundHalfUp(arg) >= 32
          => /\ ret = 224 + (RoundHalfUp(arg) - 32)
             /\ ret < led_prefix(100)
       /\ RoundHalfUp(arg) = 32 => ret = led_prefix(0)

\* C20 witness: led_prefix(102) was computed: 31.62 rounds to 32, whose low
\* five bits are 0.
C20_Witness ==
    /\ lastCall = "led_prefix" /\ arg = 102
    /\ RoundHalfUp(arg) = 32 /\ ret = 224

\* C18 as stated: update_settings_tree(base, update) returns a tree: keys
\* of base that update lacks keep base's value, keys whose value in update
\* is not a tree take it, keys whose value in update is a tree hold the
\* merge of base's value with it when base has the key, whatever base's
\* value is, and update's subtree otherwise.
C18_ReturnsMergedTree ==
    lastCall = "update_settings_tree"
    => /\ ret.kind = "tree"
       /\ \A key \in Keys :
             LET u == arg.update.items[key]
                 b == arg.base.items[key]
             IN  /\ u = Absent => ret.items[key] = b
                 /\ (u # Absent /\ u.kind # "tree") => ret.items[key] = u
                 /\ (u.kind = "tree" /\ b = Absent) => ret.items[key] = u
                 /\ (u.kind = "tree" /\ b # Absent)
                    => ret.items[key] = update_settings_tree(b, u)

====
